---- MODULE Spec2Model ----
(***************************************************************************)
(* Model of the interactive multi-series chart of src/src/app/page.tsx:    *)
(* the series interpolator (getYAtX, getLabelAtX) and the MetricsChart     *)
(* component (hover state, pointer handlers, rendered scene).              *)
(*                                                                         *)
(* A JavaScript number is modelled as a pair <<n, d>>, d >= 0, in lowest   *)
(* terms: the rational n/d when d > 0, NaN as <<0,0>>, +Infinity as        *)
(* <<1,0>> and -Infinity as <<-1,0>>.  Arithmetic on finite values is      *)
(* exact (no binary64 rounding).                                           *)
(***************************************************************************)
EXTENDS Integers, Sequences, FiniteSets, TLC

VARIABLES lines, hoverX, lastEvent, scene, points, targetX, yOut, labelOut, pathOut

vars == <<lines, hoverX, lastEvent, scene, points, targetX, yOut, labelOut, pathOut>>

(***************************************************************************)
(* JavaScript values                                                       *)
(***************************************************************************)
\* null (the initial and cleared hover position) and "not yet returned"
Null == <<>>

\* an absent optional property (label?: string)
Undefined == "<undefined>"

Abs(n) == IF n < 0 THEN -n ELSE n

Sign(n) == IF n < 0 THEN -1 ELSE IF n > 0 THEN 1 ELSE 0

RECURSIVE GCD(_, _)
GCD(a, b) == IF b = 0 THEN a ELSE GCD(b, a % b)

Norm(n, d) ==
  IF d = 0 THEN <<Sign(n), 0>>
  ELSE LET s == IF d < 0 THEN -1 ELSE 1
           g == GCD(Abs(n), Abs(d))
       IN  <<(s * n) \div g, (s * d) \div g>>

Num(n) == <<n, 1>>

NaN == <<0, 0>>

IsNaN(a) == a = NaN

IsFinite(a) == a[2] > 0

Neg(a) == <<-a[1], a[2]>>

Add(a, b) ==
  IF IsNaN(a) \/ IsNaN(b) THEN NaN
  ELSE IF ~IsFinite(a) /\ ~IsFinite(b) THEN (IF a = b THEN a ELSE NaN)
  ELSE IF ~IsFinite(a) THEN a
  ELSE IF ~IsFinite(b) THEN b
  ELSE Norm(a[1] * b[2] + b[1] * a[2], a[2] * b[2])

Sub(a, b) == Add(a, Neg(b))

Mul(a, b) == Norm(a[1] * b[1], a[2] * b[2])

Recip(a) ==
  IF a[1] = 0 THEN (IF a[2] = 0 THEN NaN ELSE <<1, 0>>)
  ELSE Norm(Sign(a[1]) * a[2], Abs(a[1]))

Div(a, b) == Mul(a, Recip(b))

Lt(a, b) ==
  IF IsNaN(a) \/ IsNaN(b) THEN FALSE
  ELSE IF ~IsFinite(a) /\ ~IsFinite(b) THEN a[1] < b[1]
  ELSE a[1] * b[2] < b[1] * a[2]

Le(a, b) ==
  IF IsNaN(a) \/ IsNaN(b) THEN FALSE
  ELSE IF ~IsFinite(a) /\ ~IsFinite(b) THEN a[1] <= b[1]
  ELSE a[1] * b[2] <= b[1] * a[2]

Ge(a, b) == Le(b, a)

MathMax(a, b) ==
  IF IsNaN(a) \/ IsNaN(b) THEN NaN ELSE IF Lt(a, b) THEN b ELSE a

MathMin(a, b) ==
  IF IsNaN(a) \/ IsNaN(b) THEN NaN ELSE IF Lt(b, a) THEN b ELSE a

(***************************************************************************)
(* Series interpolator                                                     *)
(***************************************************************************)
\* ScanY with the interpolation written without the "- points[i].y"
RECURSIVE ScanY_NoDelta(_, _, _)
ScanY_NoDelta(pts, tx, i) ==
  IF i > Len(pts) - 1 THEN pts[Len(pts)].y
  ELSE IF Ge(tx, pts[i].x) /\ Le(tx, pts[i + 1].x)
       THEN LET t == Div(Sub(tx, pts[i].x), Sub(pts[i + 1].x, pts[i].x))
            IN  Add(pts[i].y, Mul(t, pts[i + 1].y))
       ELSE ScanY_NoDelta(pts, tx, i + 1)

\* ScanY with t measured from the right end of the segment
RECURSIVE ScanY_ReversedT(_, _, _)
ScanY_ReversedT(pts, tx, i) ==
  IF i > Len(pts) - 1 THEN pts[Len(pts)].y
  ELSE IF Ge(tx, pts[i].x) /\ Le(tx, pts[i + 1].x)
       THEN LET t == Div(Sub(pts[i + 1].x, tx), Sub(pts[i + 1].x, pts[i].x))
            IN  Add(pts[i].y, Mul(t, Sub(pts[i + 1].y, pts[i].y)))
       ELSE ScanY_ReversedT(pts, tx, i + 1)

\* the for loop of getYAtX from index i on (1-based), first match returns
RECURSIVE ScanY(_, _, _)
ScanY(pts, tx, i) ==
  IF i > Len(pts) - 1 THEN pts[Len(pts)].y
  ELSE IF Ge(tx, pts[i].x) /\ Le(tx, pts[i + 1].x)
       THEN LET t == Div(Sub(tx, pts[i].x), Sub(pts[i + 1].x, pts[i].x))
            IN  Add(pts[i].y, Mul(t, Sub(pts[i + 1].y, pts[i].y)))
       ELSE ScanY(pts, tx, i + 1)

\* getYAtX with the two clamp results exchanged
getYAtX_SwappedClamp(pts, tx) ==
  IF Len(pts) = 0 THEN Num(0)
  ELSE IF Le(tx, pts[1].x) THEN pts[Len(pts)].y
  ELSE IF Ge(tx, pts[Len(pts)].x) THEN pts[1].y
  ELSE ScanY(pts, tx, 1)

\* getYAtX without the left clamp
getYAtX_NoLeftClamp(pts, tx) ==
  IF Len(pts) = 0 THEN Num(0)
  ELSE IF Ge(tx, pts[Len(pts)].x) THEN pts[Len(pts)].y
  ELSE ScanY(pts, tx, 1)

getYAtX(pts, tx) ==
  IF Len(pts) = 0 THEN Num(0)
  ELSE IF Le(tx, pts[1].x) THEN pts[1].y
  ELSE IF Ge(tx, pts[Len(pts)].x) THEN pts[Len(pts)].y
  ELSE ScanY(pts, tx, 1)

\* the index i (1-based) at which the for loop of getYAtX returns from
\* index i on, 0 when it runs to its end
RECURSIVE ScanSegment(_, _, _)
ScanSegment(pts, tx, i) ==
  IF i > Len(pts) - 1 THEN 0
  ELSE IF Ge(tx, pts[i].x) /\ Le(tx, pts[i + 1].x) THEN i
  ELSE ScanSegment(pts, tx, i + 1)

\* the segment getYAtX interpolates on; 0 when it returns without
\* interpolating (empty series, a clamp, or the loop's fall-through)
InterpSegment(pts, tx) ==
  IF Len(pts) = 0 THEN 0
  ELSE IF Le(tx, pts[1].x) THEN 0
  ELSE IF Ge(tx, pts[Len(pts)].x) THEN 0
  ELSE ScanSegment(pts, tx, 1)

\* (p.label || ''): an absent or empty label reads as the empty string
LabelOrEmpty(l) == IF l = Undefined \/ l = "" THEN "" ELSE l

\* lines.find(l => l.isPrimary) || lines[0]; 0 when there is no such line
RECURSIVE FindPrimary(_, _)
FindPrimary(ls, i) ==
  IF i > Len(ls) THEN 0
  ELSE IF ls[i].isPrimary THEN i
  ELSE FindPrimary(ls, i + 1)

\* PrimaryIndex without the find: always lines[0]
PrimaryIndex_First(ls) == IF Len(ls) > 0 THEN 1 ELSE 0

PrimaryIndex(ls) ==
  IF FindPrimary(ls, 1) # 0 THEN FindPrimary(ls, 1)
  ELSE IF Len(ls) > 0 THEN 1 ELSE 0

\* ScanLabel with the tie at t = 0.5 given to the left point (t <= 0.5)
RECURSIVE ScanLabel_TieLeft(_, _, _)
ScanLabel_TieLeft(pts, tx, i) ==
  IF i > Len(pts) - 1
  THEN (IF Len(pts) = 0 THEN "" ELSE LabelOrEmpty(pts[Len(pts)].label))
  ELSE IF Ge(tx, pts[i].x) /\ Le(tx, pts[i + 1].x)
       THEN LET t == Div(Sub(tx, pts[i].x), Sub(pts[i + 1].x, pts[i].x))
            IN  LabelOrEmpty((IF Le(t, <<1, 2>>) THEN pts[i] ELSE pts[i + 1]).label)
       ELSE ScanLabel_TieLeft(pts, tx, i + 1)

\* the for loop of getLabelAtX from index i on (1-based)
RECURSIVE ScanLabel(_, _, _)
ScanLabel(pts, tx, i) ==
  IF i > Len(pts) - 1
  THEN (IF Len(pts) = 0 THEN "" ELSE LabelOrEmpty(pts[Len(pts)].label))
  ELSE IF Ge(tx, pts[i].x) /\ Le(tx, pts[i + 1].x)
       THEN LET t == Div(Sub(tx, pts[i].x), Sub(pts[i + 1].x, pts[i].x))
            IN  LabelOrEmpty((IF Lt(t, <<1, 2>>) THEN pts[i] ELSE pts[i + 1]).label)
       ELSE ScanLabel(pts, tx, i + 1)

getLabelAtX(ls, tx) ==
  IF PrimaryIndex(ls) = 0 THEN ""
  ELSE ScanLabel(ls[PrimaryIndex(ls)].data, tx, 1)

(***************************************************************************)
(* Curve generator                                                         *)
(***************************************************************************)
chartWidth == 280

defaultChartHeight == 75

scaleX(x, width) == Mul(Div(x, Num(100)), width)

scaleY(y, height) == Sub(height, Mul(Div(y, Num(100)), height))

IMax(a, b) == IF a > b THEN a ELSE b

IMin(a, b) == IF a < b THEN a ELSE b

\* Segment with the tangents taken from the segment's own ends (p2 - p1)
\* instead of the neighbouring points
Segment_OwnEnds(pts, i, width, height) ==
  LET p1 == pts[i]
      p2 == pts[i + 1]
  IN  [cmd  |-> "C",
       cp1x |-> Add(scaleX(p1.x, width),
                    Div(Sub(scaleX(p2.x, width), scaleX(p1.x, width)), Num(6))),
       cp1y |-> Add(scaleY(p1.y, height),
                    Div(Sub(scaleY(p2.y, height), scaleY(p1.y, height)), Num(6))),
       cp2x |-> Sub(scaleX(p2.x, width),
                    Div(Sub(scaleX(p2.x, width), scaleX(p1.x, width)), Num(6))),
       cp2y |-> Sub(scaleY(p2.y, height),
                    Div(Sub(scaleY(p2.y, height), scaleY(p1.y, height)), Num(6))),
       x    |-> scaleX(p2.x, width),
       y    |-> scaleY(p2.y, height)]

\* Segment with the tangents divided by 3 instead of 6
Segment_DivThree(pts, i, width, height) ==
  LET p0 == pts[IMax(1, i - 1)]
      p1 == pts[i]
      p2 == pts[i + 1]
      p3 == pts[IMin(Len(pts), i + 2)]
  IN  [cmd  |-> "C",
       cp1x |-> Add(scaleX(p1.x, width),
                    Div(Sub(scaleX(p2.x, width), scaleX(p0.x, width)), Num(3))),
       cp1y |-> Add(scaleY(p1.y, height),
                    Div(Sub(scaleY(p2.y, height), scaleY(p0.y, height)), Num(3))),
       cp2x |-> Sub(scaleX(p2.x, width),
                    Div(Sub(scaleX(p3.x, width), scaleX(p1.x, width)), Num(3))),
       cp2y |-> Sub(scaleY(p2.y, height),
                    Div(Sub(scaleY(p3.y, height), scaleY(p1.y, height)), Num(3))),
       x    |-> scaleX(p2.x, width),
       y    |-> scaleY(p2.y, height)]

\* one " C cp1x cp1y, cp2x cp2y, x y" piece; i is the 1-based index of p1
Segment(pts, i, width, height) ==
  LET p0 == pts[IMax(1, i - 1)]
      p1 == pts[i]
      p2 == pts[i + 1]
      p3 == pts[IMin(Len(pts), i + 2)]
  IN  [cmd  |-> "C",
       cp1x |-> Add(scaleX(p1.x, width),
                    Div(Sub(scaleX(p2.x, width), scaleX(p0.x, width)), Num(6))),
       cp1y |-> Add(scaleY(p1.y, height),
                    Div(Sub(scaleY(p2.y, height), scaleY(p0.y, height)), Num(6))),
       cp2x |-> Sub(scaleX(p2.x, width),
                    Div(Sub(scaleX(p3.x, width), scaleX(p1.x, width)), Num(6))),
       cp2y |-> Sub(scaleY(p2.y, height),
                    Div(Sub(scaleY(p3.y, height), scaleY(p1.y, height)), Num(6))),
       x    |-> scaleX(p2.x, width),
       y    |-> scaleY(p2.y, height)]

\* the path string as the sequence of its commands; '' is the empty sequence
generateSmoothPath(pts, width, height) ==
  IF Len(pts) < 2 THEN <<>>
  ELSE <<[cmd |-> "M", x |-> scaleX(pts[1].x, width), y |-> scaleY(pts[1].y, height)]>>
       \o [i \in 1..(Len(pts) - 1) |-> Segment(pts, i, width, height)]

(***************************************************************************)
(* Chart view                                                              *)
(***************************************************************************)
\* Number.prototype.toFixed(1): sign and the magnitude rounded to tenths
toFixed1(a) ==
  IF IsNaN(a) THEN [kind |-> "NaN", neg |-> FALSE, tenths |-> 0]
  ELSE IF ~IsFinite(a) THEN [kind |-> "Infinity", neg |-> a[1] < 0, tenths |-> 0]
  ELSE [kind |-> "num", neg |-> a[1] < 0,
        tenths |-> (20 * Abs(a[1]) + a[2]) \div (2 * a[2])]

\* one element of processedLines: line k (1-based) with lineOpacity and
\* lineWidth defaulted (??)
ProcessedLine(ls, k) ==
  [ls[k] EXCEPT
     !.lineOpacity =
        IF ls[k].lineOpacity # Null THEN ls[k].lineOpacity
        ELSE IF ls[k].isPrimary THEN <<9, 10>>
        ELSE MathMax(<<3, 20>>, Sub(<<2, 5>>, Mul(Num(k - 1), <<2, 25>>))),
     !.lineWidth =
        IF ls[k].lineWidth # Null THEN ls[k].lineWidth
        ELSE IF ls[k].isPrimary THEN <<5, 4>> ELSE <<3, 4>>]

\* one <path> element
PathOf(line, chartHeight) ==
  [key         |-> line.id,
   d           |-> generateSmoothPath(line.data, Num(chartWidth), chartHeight),
   opacity     |-> line.lineOpacity,
   strokeWidth |-> line.lineWidth]

\* [...processedLines].reverse().map(...): the <path> elements in paint order
Paths(ls, chartHeight) ==
  [k \in 1..Len(ls) |-> PathOf(ProcessedLine(ls, Len(ls) + 1 - k), chartHeight)]

\* the dashed vertical <line>, only while hovering
Crosshair(hx, chartHeight) ==
  IF hx # Null
  THEN <<[x1 |-> Mul(Div(hx, Num(100)), Num(chartWidth)), y1 |-> Num(0),
          x2 |-> Mul(Div(hx, Num(100)), Num(chartWidth)), y2 |-> chartHeight]>>
  ELSE <<>>

\* one <circle>
MarkerOf(line, hx, chartHeight) ==
  [key         |-> line.id,
   cx          |-> Mul(Div(hx, Num(100)), Num(chartWidth)),
   cy          |-> Sub(chartHeight, Mul(Div(getYAtX(line.data, hx), Num(100)), chartHeight)),
   r           |-> IF line.isPrimary THEN <<7, 2>> ELSE <<5, 2>>,
   fill        |-> line.color,
   strokeWidth |-> IF line.isPrimary THEN <<3, 2>> ELSE Num(1)]

\* Markers with every circle placed from the first line's data
Markers_FirstLineData(ls, hx, chartHeight) ==
  IF hx # Null
  THEN [k \in 1..Len(ls) |->
          [MarkerOf(ProcessedLine(ls, k), hx, chartHeight) EXCEPT
             !.cy = Sub(chartHeight,
                        Mul(Div(getYAtX(ls[1].data, hx), Num(100)), chartHeight))]]
  ELSE <<>>

\* processedLines.map(...): one <circle> per line, only while hovering
Markers(ls, hx, chartHeight) ==
  IF hx # Null
  THEN [k \in 1..Len(ls) |-> MarkerOf(ProcessedLine(ls, k), hx, chartHeight)]
  ELSE <<>>

\* one tooltip row
RowOf(line, hx) ==
  [key   |-> line.id,
   dot   |-> line.color,
   bold  |-> line.isPrimary,
   label |-> line.label,
   value |-> toFixed1(getYAtX(line.data, hx))]

\* the floating tooltip, only while hovering
Tooltip(ls, hx) ==
  IF hx # Null
  THEN <<[left  |-> MathMin(Num(80), MathMax(Num(10), hx)),
          title |-> getLabelAtX(ls, hx),
          rows  |-> [k \in 1..Len(ls) |-> RowOf(ProcessedLine(ls, k), hx)]]>>
  ELSE <<>>

\* what MetricsChart returns for the chart surface
Render(ls, hx, chartHeight) ==
  [paths     |-> Paths(ls, chartHeight),
   crosshair |-> Crosshair(hx, chartHeight),
   markers   |-> Markers(ls, hx, chartHeight),
   tooltip   |-> Tooltip(ls, hx)]

\* HoverFraction without the clamp to [0, 100]
HoverFraction_NoClamp(clientX, left, width) ==
  Mul(Div(Sub(Num(clientX), Num(left)), Num(width)), Num(100))

\* the value handleMouseMove passes to setHoverX
HoverFraction(clientX, left, width) ==
  MathMax(Num(0), MathMin(Num(100),
          Mul(Div(Sub(Num(clientX), Num(left)), Num(width)), Num(100))))

(***************************************************************************)
(* Inputs                                                                  *)
(***************************************************************************)
MaxLen == 3

MaxLabelLen == 2

MaxLines == 3

MaxChartLines == 2

SeqsUpTo(S, n) == UNION {[1..k -> S] : k \in 0..n}

\* series handed to getYAtX: any order of x, repeated x allowed
ValuePoints ==
  {[x |-> Num(a), y |-> Num(b), label |-> Undefined] : a \in {0, 50, 100}, b \in {0, 50, 100}}

ValueSeries == SeqsUpTo(ValuePoints, MaxLen)

\* query positions: below, inside and above the data range; 49.9 and 50.1
Queries ==
  {Num(-50), Num(0), Num(25), <<499, 10>>, Num(50), <<501, 10>>, Num(75), Num(100), Num(500)}

LineIds == <<"closed", "open", "timely", "ontime", "extra">>

MkLine(k, flag, data) ==
  [id |-> LineIds[k], data |-> data, label |-> LineIds[k], color |-> LineIds[k],
   lineOpacity |-> Null, lineWidth |-> Null, isPrimary |-> flag]

\* series of the line whose labels getLabelAtX is asked for
LabelPoints ==
  {[x |-> Num(a), y |-> Num(0), label |-> l] : a \in {0, 100}, l \in {"a", "b", Undefined}}

LabelSeries == SeqsUpTo(LabelPoints, MaxLabelLen)

OtherSeries ==
  {<<>>,
   <<[x |-> Num(0), y |-> Num(0), label |-> "o1"], [x |-> Num(100), y |-> Num(0), label |-> "o2"]>>}

\* collections of up to MaxLines lines, any flags; line j carries any series
\* of LabelSeries and the other lines carry one series of OtherSeries
LabelCollections ==
  UNION {{[k \in 1..n |-> MkLine(k, flags[k], IF k = j THEN s ELSE o)] :
            flags \in [1..n -> BOOLEAN], j \in 1..n, s \in LabelSeries, o \in OtherSeries} :
         n \in 0..MaxLines}

Pt(a, b, l) == [x |-> Num(a), y |-> Num(b), label |-> l]

\* series drawn by the chart
ChartSeries ==
  {<<>>,
   <<Pt(0, 10, "1 Apr"), Pt(50, 20, "2 Apr"), Pt(100, 30, "3 Apr")>>,
   <<Pt(0, 5, "1 May"), Pt(50, 15, Undefined), Pt(100, 25, "3 May")>>,
   <<Pt(50, 40, "1 Jul"), Pt(100, 60, "2 Jul")>>}

ChartCollections ==
  UNION {{[k \in 1..n |-> MkLine(k, flags[k], data[k])] :
            flags \in [1..n -> BOOLEAN], data \in [1..n -> ChartSeries]} :
         n \in 0..MaxChartLines}

\* pointer positions and bounding rectangles of the chart surface (width > 0)
ClientXs == {-20, 50, 100, 260}

Rects == {[left |-> 0, width |-> 200], [left |-> 50, width |-> 100]}

(***************************************************************************)
(* Spec: one MetricsChart instance under pointer events                    *)
(***************************************************************************)
NoEvent == [type |-> "none"]

Init ==
  /\ lines \in ChartCollections
  /\ hoverX = Null
  /\ lastEvent = NoEvent
  /\ scene = Render(lines, Null, Num(defaultChartHeight))
  /\ points = <<>>
  /\ targetX = Null
  /\ yOut = Null
  /\ labelOut = Null
  /\ pathOut = Null

handleMouseMove(clientX, rect) ==
  /\ hoverX' = HoverFraction(clientX, rect.left, rect.width)
  /\ lastEvent' = [type |-> "move", clientX |-> clientX, rect |-> rect]
  /\ scene' = Render(lines, hoverX', Num(defaultChartHeight))
  /\ UNCHANGED <<lines, points, targetX, yOut, labelOut, pathOut>>

onMouseLeave ==
  /\ hoverX' = Null
  /\ lastEvent' = [type |-> "leave"]
  /\ scene' = Render(lines, hoverX', Num(defaultChartHeight))
  /\ UNCHANGED <<lines, points, targetX, yOut, labelOut, pathOut>>

MouseMove == \E clientX \in ClientXs, rect \in Rects : handleMouseMove(clientX, rect)

Next == MouseMove \/ onMouseLeave

Spec == Init /\ [][Next]_vars

(***************************************************************************)
(* SpecValue: getYAtX applied to a series and a query position             *)
(***************************************************************************)
InitValue ==
  /\ points \in ValueSeries
  /\ targetX \in Queries
  /\ yOut = Null
  /\ labelOut = Null
  /\ lines = <<>>
  /\ hoverX = Null
  /\ lastEvent = NoEvent
  /\ scene = Null
  /\ pathOut = Null

CallGetYAtX ==
  /\ yOut = Null
  /\ yOut' = getYAtX(points, targetX)
  /\ UNCHANGED <<lines, hoverX, lastEvent, scene, points, targetX, labelOut, pathOut>>

NextValue == CallGetYAtX

SpecValue == InitValue /\ [][NextValue]_vars

(***************************************************************************)
(* SpecLabel: getLabelAtX applied to a collection of lines and a position   *)
(***************************************************************************)
InitLabel ==
  /\ lines \in LabelCollections
  /\ targetX \in Queries
  /\ labelOut = Null
  /\ yOut = Null
  /\ points = <<>>
  /\ hoverX = Null
  /\ lastEvent = NoEvent
  /\ scene = Null
  /\ pathOut = Null

CallGetLabelAtX ==
  /\ labelOut = Null
  /\ labelOut' = <<getLabelAtX(lines, targetX)>>
  /\ UNCHANGED <<lines, hoverX, lastEvent, scene, points, targetX, yOut, pathOut>>

NextLabel == CallGetLabelAtX

SpecLabel == InitLabel /\ [][NextLabel]_vars

(***************************************************************************)
(* SpecPath: generateSmoothPath applied to a series and a canvas size      *)
(***************************************************************************)
\* canvas heights: the default chartHeight and another chartHeight prop
Heights == {defaultChartHeight, 100}

InitPath ==
  /\ points \in ValueSeries
  /\ pathOut = Null
  /\ targetX = Null
  /\ yOut = Null
  /\ labelOut = Null
  /\ lines = <<>>
  /\ hoverX = Null
  /\ lastEvent = NoEvent
  /\ scene = Null

CallGenerateSmoothPath ==
  /\ pathOut = Null
  /\ \E h \in Heights :
       pathOut' = [width  |-> chartWidth,
                   height |-> h,
                   d      |-> generateSmoothPath(points, Num(chartWidth), Num(h))]
  /\ UNCHANGED <<lines, hoverX, lastEvent, scene, points, targetX, yOut, labelOut>>

NextPath == CallGenerateSmoothPath

SpecPath == InitPath /\ [][NextPath]_vars

(***************************************************************************)
(* Properties of getYAtX (SpecValue)                                       *)
(***************************************************************************)
Sorted(pts) == \A i \in 1..(Len(pts) - 1) : Le(pts[i].x, pts[i + 1].x)

StrictlySorted(pts) == \A i \in 1..(Len(pts) - 1) : Lt(pts[i].x, pts[i + 1].x)

SegmentQueries(i) ==
  {q \in Queries : /\ Le(points[i].x, targetX)
                   /\ Le(targetX, q)
                   /\ Le(q, points[i + 1].x)}

MonotonicOn(i) ==
  \A q2 \in SegmentQueries(i) :
    /\ Le(points[i].y, points[i + 1].y) =>
         /\ Le(yOut, getYAtX(points, q2))
         /\ Le(points[i].y, yOut)
         /\ Le(getYAtX(points, q2), points[i + 1].y)
    /\ Ge(points[i].y, points[i + 1].y) =>
         /\ Ge(yOut, getYAtX(points, q2))
         /\ Ge(points[i].y, yOut)
         /\ Ge(getYAtX(points, q2), points[i + 1].y)

C3_Clamp_AsStated ==
  yOut # Null =>
    /\ Len(points) = 0 => yOut = Num(0)
    /\ (Len(points) > 0 /\ Le(targetX, points[1].x)) => yOut = points[1].y
    /\ (Len(points) > 0 /\ Ge(targetX, points[Len(points)].x)) =>
         yOut = points[Len(points)].y

\* C3 amended: getYAtX always returns a finite number; 0 for an empty series,
\* points[0].y for every query <= points[0].x, and points[last].y for every
\* query >= points[last].x that is not also <= points[0].x.
C3_Clamp_LeftFirst ==
  yOut # Null =>
    /\ IsFinite(yOut)
    /\ Len(points) = 0 => yOut = Num(0)
    /\ (Len(points) > 0 /\ Le(targetX, points[1].x)) => yOut = points[1].y
    /\ (Len(points) > 0 /\ Ge(targetX, points[Len(points)].x)
          /\ ~Le(targetX, points[1].x)) =>
         yOut = points[Len(points)].y

\* the query 500 above a series whose first and last y differ has returned
\* the last y
C3_Witness ==
  /\ yOut # Null
  /\ Len(points) > 1
  /\ targetX = Num(500)
  /\ points[1].y # points[Len(points)].y
  /\ yOut = points[Len(points)].y

Flagged(ls) == {k \in 1..Len(ls) : ls[k].isPrimary}

\* the primary series by the stated precedence: the first flagged line, else
\* the first line (0 for an empty collection)
SelectedIndex(ls) ==
  IF Flagged(ls) # {} THEN CHOOSE k \in Flagged(ls) : \A j \in Flagged(ls) : k <= j
  ELSE IF Len(ls) > 0 THEN 1 ELSE 0

SelectedData(ls) == ls[SelectedIndex(ls)].data

Brackets(pts, q) ==
  {i \in 1..(Len(pts) - 1) : Le(pts[i].x, q) /\ Le(q, pts[i + 1].x)}

\* the bracketing segment: the first one in ascending index order, 0 if none
FirstBracket(pts, q) ==
  IF Brackets(pts, q) # {}
  THEN CHOOSE i \in Brackets(pts, q) : \A j \in Brackets(pts, q) : i <= j
  ELSE 0

\* C4: on the bracketing segment (p_i, p_i+1) of the primary series, with
\* t = (q - x_i) / (x_i+1 - x_i), getLabelAtX returns the label of p_i when
\* t < 0.5 and of p_i+1 when t >= 0.5; for points at x = 0 and x = 100 the
\* query 49.9 gives the left label and 50.0 and 50.1 give the right label.
C4_NearestSample ==
  (labelOut # Null /\ Len(lines) > 0) =>
    LET pts == SelectedData(lines)
        i   == FirstBracket(pts, targetX)
    IN  /\ (i # 0 /\ pts[i].x # pts[i + 1].x) =>
             labelOut[1] =
               LabelOrEmpty(IF Lt(Mul(Num(2), Sub(targetX, pts[i].x)),
                                  Sub(pts[i + 1].x, pts[i].x))
                            THEN pts[i].label ELSE pts[i + 1].label)
        /\ (Len(pts) = 2 /\ pts[1].x = Num(0) /\ pts[2].x = Num(100)) =>
             /\ targetX = <<499, 10>> => labelOut[1] = LabelOrEmpty(pts[1].label)
             /\ targetX \in {Num(50), <<501, 10>>} =>
                  labelOut[1] = LabelOrEmpty(pts[2].label)

\* the tie: the query 50 between "a" at x = 0 and "b" at x = 100 gave "b"
C4_Witness ==
  /\ labelOut = <<"b">>
  /\ targetX = Num(50)
  /\ Len(lines) > 0
  /\ SelectedData(lines) = <<[x |-> Num(0), y |-> Num(0), label |-> "a"],
                             [x |-> Num(100), y |-> Num(0), label |-> "b"]>>

\* C5 as stated: for a non-empty sorted primary series, a query below the
\* first sample's x gets the first sample's y and label, and a query above
\* the last sample's x gets the last sample's y and label.
C5_ClampNearestEndpoint ==
  (labelOut # Null /\ Len(lines) > 0) =>
    LET pts == SelectedData(lines)
        n   == Len(pts)
    IN  (n > 0 /\ Sorted(pts)) =>
          /\ Lt(targetX, pts[1].x) =>
               /\ getYAtX(pts, targetX) = pts[1].y
               /\ labelOut[1] = LabelOrEmpty(pts[1].label)
          /\ Lt(pts[n].x, targetX) =>
               /\ getYAtX(pts, targetX) = pts[n].y
               /\ labelOut[1] = LabelOrEmpty(pts[n].label)

\* the point whose label is read: the nearer end of the bracketing segment
\* (the right end when the segment has no width), the last point if no
\* segment brackets the query
ReadIndex(pts, q) ==
  LET i == FirstBracket(pts, q)
  IN  IF i = 0 THEN Len(pts)
      ELSE IF pts[i].x = pts[i + 1].x THEN i + 1
      ELSE IF Lt(Mul(Num(2), Sub(q, pts[i].x)), Sub(pts[i + 1].x, pts[i].x)) THEN i
      ELSE i + 1

Hovering == hoverX # Null

\* the lines drawn with primary emphasis: the larger marker, the bold row
EmphasizedMarkers == {k \in 1..Len(scene.markers) : scene.markers[k].r = <<7, 2>>}

EmphasizedRows ==
  {k \in 1..Len(scene.tooltip[1].rows) : scene.tooltip[1].rows[k].bold}

\* C7 as stated: in every scene of a non-empty collection exactly one series
\* is emphasized in the markers and in the tooltip rows, and it is the series
\* getLabelAtX reads the label from, also when no line or several lines are
\* flagged isPrimary.
C7_OnePrimaryEverywhere ==
  (Hovering /\ Len(lines) > 0) =>
    /\ EmphasizedMarkers = {SelectedIndex(lines)}
    /\ EmphasizedRows = {SelectedIndex(lines)}
    /\ scene.tooltip[1].title = getLabelAtX(<<lines[SelectedIndex(lines)]>>, hoverX)

\* C8 as stated: the last path drawn is the primary series', wherever the
\* primary series stands in the collection, and the other series are drawn
\* before it in reverse collection order.
C8_PrimaryDrawnLast ==
  Len(lines) > 0 =>
    LET n      == Len(lines)
        sel    == SelectedIndex(lines)
        others == [k \in 1..(n - 1) |-> IF k < sel THEN k ELSE k + 1]
    IN  /\ Len(scene.paths) = n
        /\ scene.paths[n].key = lines[sel].id
        /\ \A k \in 1..(n - 1) : scene.paths[k].key = lines[others[n - k]].id

\* the fraction of the last pointer-move, clamped, by case analysis
ExpectedHover(ev) ==
  LET dx == ev.clientX - ev.rect.left
  IN  IF dx <= 0 THEN Num(0)
      ELSE IF dx >= ev.rect.width THEN Num(100)
      ELSE Norm(dx * 100, ev.rect.width)

\* C9: the hover position is null exactly when no pointer-move has occurred
\* since the last pointer-leave (or since creation); otherwise it is the last
\* pointer-move's (clientX - left) / width * 100 clamped to [0, 100],
\* whatever the earlier events were.
C9_LastMoveWins ==
  /\ hoverX = Null <=> lastEvent.type # "move"
  /\ lastEvent.type = "move" =>
       /\ hoverX = ExpectedHover(lastEvent)
       /\ IsFinite(hoverX)
       /\ 0 <= hoverX[1]
       /\ hoverX[1] <= 100 * hoverX[2]

\* a pointer-move right of the surface: the fraction 130 clamped to 100
C9_Witness ==
  /\ lastEvent.type = "move"
  /\ lastEvent.clientX = 260
  /\ lastEvent.rect = [left |-> 0, width |-> 200]
  /\ hoverX = Num(100)

\* C10: crosshair, markers and tooltip are rendered exactly while the hover
\* position is not null; then there is one marker and one tooltip row per
\* line, in collection order, each computed by getYAtX from that line's own
\* data at the shared hover position; (10, 20, 30) and (5, 15, 25) at
\* x = (0, 50, 100) hovered at 50 show 20.0 and 15.0.
C10_HoverElements ==
  /\ ~Hovering =>
       /\ scene.crosshair = <<>>
       /\ scene.markers = <<>>
       /\ scene.tooltip = <<>>
  /\ Hovering =>
       /\ Len(scene.crosshair) = 1
       /\ Len(scene.tooltip) = 1
       /\ Len(scene.markers) = Len(lines)
       /\ Len(scene.tooltip[1].rows) = Len(lines)
       /\ \A k \in 1..Len(lines) :
            LET v == getYAtX(lines[k].data, hoverX)
            IN  /\ scene.markers[k].key = lines[k].id
                /\ scene.tooltip[1].rows[k].key = lines[k].id
                /\ Sub(Num(defaultChartHeight), scene.markers[k].cy)
                     = Div(Mul(v, Num(defaultChartHeight)), Num(100))
                /\ scene.tooltip[1].rows[k].value = toFixed1(v)
       /\ (/\ hoverX = Num(50)
           /\ Len(lines) = 2
           /\ lines[1].data = <<Pt(0, 10, "1 Apr"), Pt(50, 20, "2 Apr"), Pt(100, 30, "3 Apr")>>
           /\ lines[2].data = <<Pt(0, 5, "1 May"), Pt(50, 15, Undefined), Pt(100, 25, "3 May")>>)
          => /\ scene.tooltip[1].rows[1].value = [kind |-> "num", neg |-> FALSE, tenths |-> 200]
             /\ scene.tooltip[1].rows[2].value = [kind |-> "num", neg |-> FALSE, tenths |-> 150]
             /\ scene.markers[1].cy = Num(60)
             /\ scene.markers[2].cy = <<255, 4>>

\* the two-series scenario hovered at x = 50, after a leave and a new move
C10_Witness ==
  /\ hoverX = Num(50)
  /\ Len(lines) = 2
  /\ lines[1].isPrimary
  /\ ~lines[2].isPrimary
  /\ lines[1].data = <<Pt(0, 10, "1 Apr"), Pt(50, 20, "2 Apr"), Pt(100, 30, "3 Apr")>>
  /\ lines[2].data = <<Pt(0, 5, "1 May"), Pt(50, 15, Undefined), Pt(100, 25, "3 May")>>
  /\ Len(scene.markers) = 2
  /\ scene.tooltip[1].rows[1].value.tenths = 200
  /\ scene.tooltip[1].rows[2].value.tenths = 150

(***************************************************************************)
(* Properties of generateSmoothPath (SpecPath)                             *)
(***************************************************************************)
\* pixel coordinates of point k (0-based, clamped to the series) of the call
PX(k) ==
  LET p == points[IMin(Len(points), IMax(1, k + 1))]
  IN  Norm(p.x[1] * pathOut.width, 100 * p.x[2])

PY(k) ==
  LET p == points[IMin(Len(points), IMax(1, k + 1))]
  IN  Norm(100 * p.y[2] * pathOut.height - p.y[1] * pathOut.height, 100 * p.y[2])

\* C11: generateSmoothPath returns the empty path for 0 or 1 points; for
\* n >= 2 points the path starts with a move to the mapped first point and
\* continues with exactly n-1 cubic segments, segment i (0-based) ending at
\* the mapped point i+1 with cp1 = p[i] + (p[i+1] - p[max(0,i-1)]) / 6 and
\* cp2 = p[i+1] - (p[min(n-1,i+2)] - p[i]) / 6 on each axis, in pixels
\* (px = x/100*width, py = height - y/100*height).
C11_SmoothPathShape ==
  pathOut # Null =>
    LET n == Len(points)
        d == pathOut.d
    IN  /\ n < 2 => d = <<>>
        /\ n >= 2 =>
             /\ Len(d) = n
             /\ d[1] = [cmd |-> "M", x |-> PX(0), y |-> PY(0)]
             /\ \A i \in 0..(n - 2) :
                  LET c == d[i + 2]
                  IN  /\ c.cmd = "C"
                      /\ c.x = PX(i + 1)
                      /\ c.y = PY(i + 1)
                      /\ c.cp1x = Add(PX(i), Div(Sub(PX(i + 1), PX(i - 1)), Num(6)))
                      /\ c.cp1y = Add(PY(i), Div(Sub(PY(i + 1), PY(i - 1)), Num(6)))
                      /\ c.cp2x = Sub(PX(i + 1), Div(Sub(PX(i + 2), PX(i)), Num(6)))
                      /\ c.cp2y = Sub(PY(i + 1), Div(Sub(PY(i + 2), PY(i)), Num(6)))

\* the path of (0,0), (50,100), (100,0) on the 280 x 75 canvas: a move and
\* two cubic segments, the first one's cp1 pulled towards the second point
\* and its cp2 level with the peak
C11_Witness ==
  /\ pathOut # Null
  /\ pathOut.height = defaultChartHeight
  /\ points = <<[x |-> Num(0), y |-> Num(0), label |-> Undefined],
                [x |-> Num(50), y |-> Num(100), label |-> Undefined],
                [x |-> Num(100), y |-> Num(0), label |-> Undefined]>>
  /\ Len(pathOut.d) = 3
  /\ pathOut.d[2].cp1x = <<70, 3>>
  /\ pathOut.d[2].cp2y = Num(0)
  /\ pathOut.d[3].x = Num(280)

\* C12: for exactly 2 points the path is one cubic segment whose control
\* points lie on the straight line between the mapped end points, cp1 at 1/6
\* and cp2 at 5/6 of the way from the first to the second.
C12_TwoPointsStraight ==
  (pathOut # Null /\ Len(points) = 2) =>
    /\ Len(pathOut.d) = 2
    /\ pathOut.d[1].cmd = "M"
    /\ pathOut.d[2].cmd = "C"
    /\ <<pathOut.d[1].x, pathOut.d[1].y>> = <<PX(0), PY(0)>>
    /\ <<pathOut.d[2].x, pathOut.d[2].y>> = <<PX(1), PY(1)>>
    /\ Mul(Num(6), pathOut.d[2].cp1x) = Add(Mul(Num(5), PX(0)), PX(1))
    /\ Mul(Num(6), pathOut.d[2].cp1y) = Add(Mul(Num(5), PY(0)), PY(1))
    /\ Mul(Num(6), pathOut.d[2].cp2x) = Add(PX(0), Mul(Num(5), PX(1)))
    /\ Mul(Num(6), pathOut.d[2].cp2y) = Add(PY(0), Mul(Num(5), PY(1)))

\* the path of two points that differ on both axes has been generated
C12_Witness ==
  /\ pathOut # Null
  /\ Len(points) = 2
  /\ points[1].x # points[2].x
  /\ points[1].y # points[2].y
  /\ Len(pathOut.d) = 2
  /\ pathOut.d[2].cp1x # pathOut.d[2].cp2x

====
